---- MODULE Spec2Model ----
(***************************************************************************)
(* athena-query-client: the execution poller (AthenaQueryClient.query and  *)
(* #checkQueryExecutionState) and the streaming batch processor            *)
(* (S3QueryResultProcessor), as state machines.                            *)
(***************************************************************************)
EXTENDS Integers, Sequences, FiniteSets, TLC

(***************************************************************************)
(* Bounds of the model.                                                    *)
(***************************************************************************)
\* the service answers QUEUED/RUNNING to fewer than MaxPolls status calls
MaxPolls == 4
\* the decoded stream holds at most MaxRecords records
MaxRecords == 3
\* the configured batch sizes run from 1 to MaxBatch
MaxBatch == 3
\* the sink is invoked at most MaxSinkCalls times in a run
MaxSinkCalls == 4

(***************************************************************************)
(* Values.                                                                 *)
(***************************************************************************)
\* a JavaScript undefined, as a template literal prints it
Undefined == "undefined"

\* QueryExecutionState of the service, plus values the enum does not hold
NonTerminalStates == {"QUEUED", "RUNNING"}
KnownStates == {"SUCCEEDED", "FAILED", "CANCELLED"} \cup NonTerminalStates
StatusStates == KnownStates \cup {"UNKNOWN_STATE", Undefined}

\* Status.StateChangeReason of a status response
Reasons == {Undefined, "", "Table not found"}

\* QueryExecutionId of a submit response
ExecutionIds == {"test-query-id-123", "query-id"}
SubmitIds == ExecutionIds \cup {Undefined, ""}

\* messages of the errors the service client throws
TransportMessages == {"AWS SDK Error"}

\* a JavaScript value is falsy: undefined or the empty string
Falsy(v) == v \in {Undefined, ""}

\* the error object new Error(message): message is kept as its pieces
PlainError(message) == [name |-> "Error", message |-> message]

Pending == [kind |-> "pending", value |-> Undefined,
            error |-> [name |-> Undefined, message |-> <<>>]]
Resolved(v) == [kind |-> "resolved", value |-> v,
                error |-> [name |-> Undefined, message |-> <<>>]]
Rejected(e) == [kind |-> "rejected", value |-> Undefined, error |-> e]

\* what a synchronous call gives back: a value, or a thrown error
Returned(v) == [threw |-> FALSE, value |-> v,
                error |-> [name |-> Undefined, message |-> <<>>]]
Thrown(e) == [threw |-> TRUE, value |-> <<>>, error |-> e]

\* the ceiling of batch and page sizes
MAX_BATCH_SIZE == 999

VARIABLES
    \* ---- AthenaQueryClient.query ----
    qpc,          \* where query() is: idle, submit, poll, wait, settled
    executionId,  \* QueryExecutionId of the submit response
    sends,        \* the commands handed to client.send, in order
    responses,    \* the status responses received, in order
    timers,       \* how many timer(1000) waits were started
    waits,        \* the due times of the timers started, in milliseconds
    transport,    \* whether a client.send call has thrown
    outcome       \* the promise query() returned

queryVars == <<qpc, executionId, sends, responses, timers, waits, transport,
               outcome>>

VARIABLES
    \* ---- S3QueryResultProcessor ----
    spc,             \* where processResults is: idle, fetch, finished, final,
                     \* complete, resolved, rejected
    batchSize,       \* this.#batchSize
    hasOnComplete,   \* whether config.onComplete is given
    source,          \* how many records the CSV object decodes to
    pushed,          \* how many records the decoder has made readable
    taken,           \* how many records parser.read() has returned
    eof,             \* the decoder has signalled the end of the data
    readable,        \* a 'readable' event is due
    endReadable,     \* a read found the ended stream empty: 'end' is due
    batch,           \* the batch array of #processStreamingResults
    totalProcessed,  \* its totalProcessed counter
    handlers,        \* per record read: where the handler that read it is
    calls,           \* the invocations of config.onData, in order
    completed,       \* how many times config.onComplete was called
    unhandled,       \* rejected handler promises nobody observes
    s3outcome,       \* the promise processResults returned
    fetched          \* what the storage client answered: none, body, nobody, threw

s3Vars == <<spc, batchSize, hasOnComplete, source, pushed, taken, eof, readable,
            endReadable, batch, totalProcessed, handlers, calls, completed,
            unhandled, s3outcome, fetched>>

VARIABLES
    \* ---- new S3QueryResultProcessor(config) ----
    cpc,          \* where the constructor is: new, constructed, threw
    cArg,         \* config.batchSize: whether it is given, and its number
    cBatchSize,   \* this.#batchSize
    cS3Client,    \* whether new S3Client(...) was evaluated
    cError        \* the error the constructor threw

ctorVars == <<cpc, cArg, cBatchSize, cS3Client, cError>>

VARIABLES
    \* ---- MappedQueryResultProcessor.processResults ----
    mpc,          \* where processResults is: idle, fetch, settled
    mResponse,    \* the GetQueryResults response
    mReceived,    \* what athenaClient.send gave: none, response, error
    mSends,       \* how many commands were handed to athenaClient.send
    mOutcome      \* the promise processResults returned

mapperVars == <<mpc, mResponse, mReceived, mSends, mOutcome>>

VARIABLES
    \* ---- new MappedQueryResultProcessor(config) ----
    mcpc,         \* where the constructor is: new, constructed, threw
    mcArg,        \* config.MaxResults: whether it is given, and its number
    mcError       \* the error the constructor threw

mappedCtorVars == <<mcpc, mcArg, mcError>>

VARIABLES
    \* ---- JsonFileAppender and its target file ----
    apc,          \* where flush is: idle, ensure, access, stat, writeFile
    currentBatch, \* the batch of the flush in progress
    isFirstWrite, \* this.#isFirstWrite
    dirExists,    \* whether options.directory exists
    fileExists,   \* whether the target file exists
    file,         \* the content of the target file, as the chunks written
    initially,    \* the target before the first call: nodir, absent, empty
    mkdirs,       \* how many times mkdir was called
    streams,      \* the write streams created, in order of creation
    closeCalls    \* the calls of closeFileWithBracket, in order

appenderVars == <<apc, currentBatch, isFirstWrite, dirExists, fileExists, file,
                  initially, mkdirs, streams, closeCalls>>

vars == <<queryVars, s3Vars, ctorVars, mapperVars, mappedCtorVars, appenderVars>>

\* what an operation of one component leaves alone
notQueryVars == <<s3Vars, ctorVars, mapperVars, mappedCtorVars, appenderVars>>
notS3Vars == <<queryVars, ctorVars, mapperVars, mappedCtorVars, appenderVars>>
notCtorVars == <<queryVars, s3Vars, mapperVars, mappedCtorVars, appenderVars>>
notMapperVars == <<queryVars, s3Vars, ctorVars, mappedCtorVars, appenderVars>>
notMappedCtorVars == <<queryVars, s3Vars, ctorVars, mapperVars, appenderVars>>
notAppenderVars == <<queryVars, s3Vars, ctorVars, mapperVars, mappedCtorVars>>

(***************************************************************************)
(* AthenaQueryClient: query and #checkQueryExecutionState.                 *)
(***************************************************************************)
\* the value of of(null), which expand reads as "poll again"
Null == "null"

Emit(v) == [kind |-> "next", value |-> v, error |-> PlainError(<<>>)]
Throw(e) == [kind |-> "error", value |-> Undefined, error |-> e]

\* ClassifyState emitting the state, not the identifier, on success
ClassifyStateEmitsState(state, reason, QueryExecutionId) ==
    CASE state = "SUCCEEDED" -> Emit(state)
      [] state = "FAILED" ->
            Throw(PlainError(<<"Query failed: ",
                               IF Falsy(reason) THEN "Unknown reason" ELSE reason>>))
      [] state = "CANCELLED" -> Throw(PlainError(<<"Query was cancelled">>))
      [] state \in NonTerminalStates -> Emit(Null)
      [] OTHER -> Throw(PlainError(<<"Unknown query state: ", state>>))

\* ClassifyState with ?? in place of ||: an empty reason is kept
ClassifyStateNullish(state, reason, QueryExecutionId) ==
    CASE state = "SUCCEEDED" -> Emit(QueryExecutionId)
      [] state = "FAILED" ->
            Throw(PlainError(<<"Query failed: ",
                               IF reason = Undefined THEN "Unknown reason" ELSE reason>>))
      [] state = "CANCELLED" -> Throw(PlainError(<<"Query was cancelled">>))
      [] state \in NonTerminalStates -> Emit(Null)
      [] OTHER -> Throw(PlainError(<<"Unknown query state: ", state>>))

\* ClassifyState with CANCELLED falling through to the QUEUED/RUNNING case
ClassifyStateCancelledFallsThrough(state, reason, QueryExecutionId) ==
    CASE state = "SUCCEEDED" -> Emit(QueryExecutionId)
      [] state = "FAILED" ->
            Throw(PlainError(<<"Query failed: ",
                               IF Falsy(reason) THEN "Unknown reason" ELSE reason>>))
      [] state \in NonTerminalStates \cup {"CANCELLED"} -> Emit(Null)
      [] OTHER -> Throw(PlainError(<<"Unknown query state: ", state>>))

\* ClassifyState whose default case polls again
ClassifyStateDefaultPolls(state, reason, QueryExecutionId) ==
    CASE state = "SUCCEEDED" -> Emit(QueryExecutionId)
      [] state = "FAILED" ->
            Throw(PlainError(<<"Query failed: ",
                               IF Falsy(reason) THEN "Unknown reason" ELSE reason>>))
      [] state = "CANCELLED" -> Throw(PlainError(<<"Query was cancelled">>))
      [] OTHER -> Emit(Null)

\* the switchMap of #checkQueryExecutionState: what one status response becomes
ClassifyState(state, reason, QueryExecutionId) ==
    CASE state = "SUCCEEDED" -> Emit(QueryExecutionId)
      [] state = "FAILED" ->
            Throw(PlainError(<<"Query failed: ",
                               IF Falsy(reason) THEN "Unknown reason" ELSE reason>>))
      [] state = "CANCELLED" -> Throw(PlainError(<<"Query was cancelled">>))
      [] state \in NonTerminalStates -> Emit(Null)
      [] OTHER -> Throw(PlainError(<<"Unknown query state: ", state>>))

\* the due time of the timer expand starts: timer(1000)
PollInterval == 1000

\* the project function of expand: a timer(1000) then the next check, or EMPTY
Expand(result) == IF result = Null THEN "timer" ELSE "EMPTY"

\* filter((result) => result !== null)
Filter(result) == result # Null

\* the error query() throws when the submit response carries no identifier
MissingIdError ==
    PlainError(<<"Failed to start query: QueryExecutionId is undefined">>)

\* the .catch of query(): the error it throws for a failed firstValueFrom
QueryCatch(error) ==
    PlainError(<<"Query execution failed: ">> \o error.message)

\* firstValueFrom on a source that completed without a value
EmptyError == [name |-> "EmptyError", message |-> <<"no elements in sequence">>]

QueryInit ==
    /\ qpc = "idle"
    /\ executionId = Undefined
    /\ sends = <<>>
    /\ responses = <<>>
    /\ timers = 0
    /\ waits = <<>>
    /\ transport = FALSE
    /\ outcome = Pending

\* query(sqlQuery) up to its first await: the submit call is sent
Query ==
    /\ qpc = "idle"
    /\ qpc' = "submit"
    /\ sends' = Append(sends, "StartQueryExecution")
    /\ UNCHANGED <<executionId, responses, timers, waits, transport, outcome>>
    /\ UNCHANGED notQueryVars

\* StartResponds starting a timer before the first status call
StartRespondsWaitsFirst(id) ==
    /\ qpc = "submit"
    /\ executionId' = id
    /\ IF Falsy(id)
         THEN /\ outcome' = Rejected(MissingIdError)
              /\ qpc' = "settled"
              /\ UNCHANGED <<timers, waits>>
         ELSE /\ timers' = timers + 1
              /\ waits' = Append(waits, PollInterval)
              /\ qpc' = "wait"
              /\ UNCHANGED outcome
    /\ UNCHANGED <<sends, responses, transport>>
    /\ UNCHANGED notQueryVars

\* the submit call resolves with QueryExecutionId = id; without an identifier
\* query() throws, with one it subscribes to the check, which sends at once
StartResponds(id) ==
    /\ qpc = "submit"
    /\ executionId' = id
    /\ IF Falsy(id)
         THEN /\ outcome' = Rejected(MissingIdError)
              /\ qpc' = "settled"
              /\ UNCHANGED sends
         ELSE /\ sends' = Append(sends, "GetQueryExecution")
              /\ qpc' = "poll"
              /\ UNCHANGED outcome
    /\ UNCHANGED <<responses, timers, waits, transport>>
    /\ UNCHANGED notQueryVars

\* the submit call throws: the await is outside any try or catch
StartThrows(m) ==
    /\ qpc = "submit"
    /\ transport' = TRUE
    /\ outcome' = Rejected(PlainError(<<m>>))
    /\ qpc' = "settled"
    /\ UNCHANGED <<executionId, sends, responses, timers, waits>>
    /\ UNCHANGED notQueryVars

\* a status call resolves with State = state, StateChangeReason = reason
GetResponds(state, reason) ==
    /\ qpc = "poll"
    /\ state \in NonTerminalStates => Len(responses) + 1 < MaxPolls
    /\ responses' = Append(responses, [State |-> state, StateChangeReason |-> reason])
    /\ LET r == ClassifyState(state, reason, executionId) IN
        IF r.kind = "error"
          THEN /\ outcome' = Rejected(QueryCatch(r.error))
               /\ qpc' = "settled"
               /\ UNCHANGED <<timers, waits>>
          ELSE IF Expand(r.value) = "timer"
            THEN /\ timers' = timers + 1
                 /\ waits' = Append(waits, PollInterval)
                 /\ qpc' = "wait"
                 /\ UNCHANGED outcome
            ELSE /\ outcome' = IF Filter(r.value)
                                 THEN Resolved(r.value)
                                 ELSE Rejected(QueryCatch(EmptyError))
                 /\ qpc' = "settled"
                 /\ UNCHANGED <<timers, waits>>
    /\ UNCHANGED <<executionId, sends, transport>>
    /\ UNCHANGED notQueryVars

\* GetThrows taking the failed status call for "not finished yet": a wait
\* is started and the status call is sent again
GetThrowsRetries(m) ==
    /\ qpc = "poll"
    /\ timers < MaxPolls
    /\ transport' = TRUE
    /\ timers' = timers + 1
    /\ waits' = Append(waits, PollInterval)
    /\ qpc' = "wait"
    /\ UNCHANGED <<executionId, sends, responses, outcome>>
    /\ UNCHANGED notQueryVars

\* a status call throws
GetThrows(m) ==
    /\ qpc = "poll"
    /\ transport' = TRUE
    /\ outcome' = Rejected(QueryCatch(PlainError(<<m>>)))
    /\ qpc' = "settled"
    /\ UNCHANGED <<executionId, sends, responses, timers, waits>>
    /\ UNCHANGED notQueryVars

\* TimerFires subscribing twice: two status calls per wait
TimerFiresTwice ==
    /\ qpc = "wait"
    /\ sends' = sends \o <<"GetQueryExecution", "GetQueryExecution">>
    /\ qpc' = "poll"
    /\ UNCHANGED <<executionId, responses, timers, waits, transport, outcome>>
    /\ UNCHANGED notQueryVars

\* TimerFires giving up after two waits
TimerFiresMaxAttempts ==
    /\ qpc = "wait"
    /\ IF timers < 2
         THEN /\ sends' = Append(sends, "GetQueryExecution")
              /\ qpc' = "poll"
              /\ UNCHANGED outcome
         ELSE /\ outcome' = Rejected(QueryCatch(PlainError(<<"Maximum attempts reached">>)))
              /\ qpc' = "settled"
              /\ UNCHANGED sends
    /\ UNCHANGED <<executionId, responses, timers, waits, transport>>
    /\ UNCHANGED notQueryVars

\* timer(1000) fires: switchMap subscribes to the next check, which sends
TimerFires ==
    /\ qpc = "wait"
    /\ sends' = Append(sends, "GetQueryExecution")
    /\ qpc' = "poll"
    /\ UNCHANGED <<executionId, responses, timers, waits, transport, outcome>>
    /\ UNCHANGED notQueryVars

QueryNext ==
    \/ Query
    \/ \E id \in SubmitIds : StartResponds(id)
    \/ \E m \in TransportMessages : StartThrows(m)
    \/ \E s \in StatusStates, r \in Reasons : GetResponds(s, r)
    \/ \E m \in TransportMessages : GetThrows(m)
    \/ TimerFires

\* the S3 processor is constructed and not used
S3Off ==
    /\ spc = "idle"
    /\ batchSize = 1
    /\ hasOnComplete = FALSE
    /\ source = 0
    /\ pushed = 0
    /\ taken = 0
    /\ eof = FALSE
    /\ readable = FALSE
    /\ endReadable = FALSE
    /\ batch = <<>>
    /\ totalProcessed = 0
    /\ handlers = [r \in 1..MaxRecords |-> "none"]
    /\ calls = <<>>
    /\ completed = 0
    /\ unhandled = 0
    /\ s3outcome = Pending
    /\ fetched = "none"

\* no S3 processor is being constructed: the field initializers only
CtorInit ==
    /\ cpc = "new"
    /\ cArg = [given |-> FALSE, n |-> 0]
    /\ cBatchSize = MAX_BATCH_SIZE
    /\ cS3Client = FALSE
    /\ cError = [name |-> Undefined, message |-> <<>>]

\* the promise of a processResults of the mapped processor: its value is a
\* sequence of mapped rows
MappedPending == [kind |-> "pending", value |-> <<>>,
                  error |-> [name |-> Undefined, message |-> <<>>]]
MappedResolved(rows) == [kind |-> "resolved", value |-> rows,
                         error |-> [name |-> Undefined, message |-> <<>>]]
MappedRejected(e) == [kind |-> "rejected", value |-> <<>>, error |-> e]

\* a GetQueryResults response without ResultSet
NoResultSet == [hasResultSet |-> FALSE,
                ResultSet |-> [hasRows |-> FALSE, Rows |-> <<>>],
                NextToken |-> Undefined]

\* the mapped processor is constructed and processResults not yet called
MappedInit ==
    /\ mpc = "idle"
    /\ mResponse = NoResultSet
    /\ mReceived = "none"
    /\ mSends = 0
    /\ mOutcome = MappedPending

\* no mapped processor is being constructed
MappedCtorInit ==
    /\ mcpc = "new"
    /\ mcArg = [given |-> FALSE, n |-> 0]
    /\ mcError = [name |-> Undefined, message |-> <<>>]

\* a JsonFileAppender is constructed and not used; its directory exists
AppenderOff ==
    /\ apc = "idle"
    /\ currentBatch = <<>>
    /\ isFirstWrite = TRUE
    /\ dirExists = TRUE
    /\ fileExists = FALSE
    /\ file = <<>>
    /\ initially = "absent"
    /\ mkdirs = 0
    /\ streams = <<>>
    /\ closeCalls = <<>>

QuerySpecInit ==
    QueryInit /\ S3Off /\ CtorInit /\ MappedInit /\ MappedCtorInit /\ AppenderOff

QuerySpec == QuerySpecInit /\ [][QueryNext]_vars

(***************************************************************************)
(* S3QueryResultProcessor: processResults and #processStreamingResults.    *)
(* A record of the decoded stream is its position 1..source; the caller of *)
(* config.onData is the record whose handler called it, or Main for the    *)
(* final batch.                                                            *)
(***************************************************************************)
Main == 0

\* messages of the errors the storage client, the decoder and the callbacks throw
StorageMessages == {"NoSuchKey"}
DecodeMessages == {"Invalid Record Length"}
SinkMessages == {"Sink failed"}
CompleteMessages == {"Close failed"}

Max(a, b) == IF a > b THEN a ELSE b
Copies(record, n) == [i \in 1..n |-> record]

\* the while loop of the 'readable' handler from buf up to its next await:
\* record is never read again, so it is pushed until the batch is full
WhileLoop(buf, record) == buf \o Copies(record, Max(1, batchSize - Len(buf)))

\* the error #processBatch throws when config.onData rejects
ProcessBatchError(m) == PlainError(<<"Error processing batch: ", m>>)

\* the catch of #processStreamingResults
ProcessingError(error) ==
    PlainError(<<"Error processing results: ">> \o error.message)

\* the error #fetchS3Object throws for a response without Body
FetchFileError == PlainError(<<"Failed to fetch file: ", "Bucket/Key">>)

OnData(caller, records) ==
    [by |-> caller, records |-> records, state |-> "pending"]

S3Init ==
    /\ spc = "idle"
    /\ batchSize \in 1..MaxBatch
    /\ hasOnComplete \in BOOLEAN
    /\ source \in 0..MaxRecords
    /\ pushed = 0
    /\ taken = 0
    /\ eof = FALSE
    /\ readable = FALSE
    /\ endReadable = FALSE
    /\ batch = <<>>
    /\ totalProcessed = 0
    /\ handlers = [r \in 1..MaxRecords |-> "none"]
    /\ calls = <<>>
    /\ completed = 0
    /\ unhandled = 0
    /\ s3outcome = Pending
    /\ fetched = "none"

\* processResults(queryExecutionId) up to its await of #fetchS3Object
ProcessResults ==
    /\ spc = "idle"
    /\ spc' = "fetch"
    /\ UNCHANGED <<batchSize, hasOnComplete, source, pushed, taken, eof, readable,
                   endReadable, batch, totalProcessed, handlers, calls,
                   completed, unhandled, s3outcome>>
    /\ UNCHANGED <<fetched, notS3Vars>>

\* FetchResponds without the Body check of #fetchS3Object
FetchRespondsIgnoresBody(hasBody) ==
    /\ spc = "fetch"
    /\ spc' = "finished"
    /\ fetched' = (IF hasBody THEN "body" ELSE "nobody")
    /\ UNCHANGED <<batchSize, hasOnComplete, source, pushed, taken, eof, readable,
                   endReadable, batch, totalProcessed, handlers, calls,
                   completed, unhandled, s3outcome>>
    /\ UNCHANGED notS3Vars

\* the storage client answers: without Body #fetchS3Object throws, with one
\* #processStreamingResults pipes it into the decoder, registers the
\* 'readable' handler and awaits finished(parser)
FetchResponds(hasBody) ==
    /\ spc = "fetch"
    /\ IF hasBody
         THEN spc' = "finished" /\ UNCHANGED s3outcome
         ELSE spc' = "rejected" /\ s3outcome' = Rejected(FetchFileError)
    /\ UNCHANGED <<batchSize, hasOnComplete, source, pushed, taken, eof, readable,
                   endReadable, batch, totalProcessed, handlers, calls,
                   completed, unhandled>>
    /\ fetched' = (IF hasBody THEN "body" ELSE "nobody")
    /\ UNCHANGED notS3Vars

\* the storage client throws: processResults has no try around the fetch
FetchThrows(m) ==
    /\ spc = "fetch"
    /\ spc' = "rejected"
    /\ s3outcome' = Rejected(PlainError(<<m>>))
    /\ UNCHANGED <<batchSize, hasOnComplete, source, pushed, taken, eof, readable,
                   endReadable, batch, totalProcessed, handlers, calls,
                   completed, unhandled>>
    /\ fetched' = "threw"
    /\ UNCHANGED notS3Vars

\* the decoder makes its next record readable
ParserPush ==
    /\ spc = "finished"
    /\ ~eof
    /\ pushed < source
    /\ pushed' = pushed + 1
    /\ readable' = TRUE
    /\ UNCHANGED <<spc, batchSize, hasOnComplete, source, taken, eof,
                   endReadable, batch, totalProcessed, handlers, calls,
                   completed, unhandled, s3outcome>>
    /\ UNCHANGED <<fetched, notS3Vars>>

\* the decoder has decoded the whole object
ParserEof ==
    /\ spc = "finished"
    /\ ~eof
    /\ pushed = source
    /\ eof' = TRUE
    /\ readable' = TRUE
    /\ UNCHANGED <<spc, batchSize, hasOnComplete, source, pushed, taken,
                   endReadable, batch, totalProcessed, handlers, calls,
                   completed, unhandled, s3outcome>>
    /\ UNCHANGED <<fetched, notS3Vars>>

\* the decoder fails on a malformed row: finished(parser) rejects
DecodeError(m) ==
    /\ spc = "finished"
    /\ ~eof
    /\ spc' = "rejected"
    /\ s3outcome' = Rejected(ProcessingError(PlainError(<<m>>)))
    /\ readable' = FALSE
    /\ UNCHANGED <<batchSize, hasOnComplete, source, pushed, taken, eof,
                   endReadable, batch, totalProcessed, handlers, calls,
                   completed, unhandled>>
    /\ UNCHANGED <<fetched, notS3Vars>>

\* a 'readable' event: the handler reads once and runs to its first await
Readable ==
    /\ spc = "finished"
    /\ readable
    /\ readable' = FALSE
    /\ IF taken < pushed
         THEN LET record == taken + 1 IN
              /\ Len(calls) < MaxSinkCalls
              /\ taken' = record
              /\ endReadable' = (endReadable \/ (eof /\ record = source))
              /\ batch' = WhileLoop(batch, record)
              /\ calls' = Append(calls, OnData(record, batch'))
              /\ handlers' = [handlers EXCEPT ![record] = "await"]
         ELSE /\ endReadable' = (endReadable \/ eof)
              /\ UNCHANGED <<taken, batch, calls, handlers>>
    /\ UNCHANGED <<spc, batchSize, hasOnComplete, source, pushed, eof,
                   totalProcessed, completed, unhandled, s3outcome>>
    /\ UNCHANGED <<fetched, notS3Vars>>

\* Finished handing the batch array to the sink even when it is empty
FinishedAlwaysFlushes ==
    /\ spc = "finished"
    /\ endReadable
    /\ Len(calls) < MaxSinkCalls
    /\ calls' = Append(calls, OnData(Main, batch))
    /\ spc' = "final"
    /\ UNCHANGED <<batchSize, hasOnComplete, source, pushed, taken, eof, readable,
                   endReadable, batch, totalProcessed, handlers, unhandled,
                   completed, s3outcome>>
    /\ UNCHANGED <<fetched, notS3Vars>>

\* finished(parser) resolves: the final batch goes to the sink when the
\* batch array is not empty, else config.onComplete is called
Finished ==
    /\ spc = "finished"
    /\ endReadable
    /\ IF Len(batch) > 0
         THEN /\ Len(calls) < MaxSinkCalls
              /\ calls' = Append(calls, OnData(Main, batch))
              /\ spc' = "final"
              /\ UNCHANGED <<completed, s3outcome>>
         ELSE /\ IF hasOnComplete
                   THEN /\ completed' = completed + 1
                        /\ spc' = "complete"
                        /\ UNCHANGED s3outcome
                   ELSE /\ spc' = "resolved"
                        /\ s3outcome' = Resolved(Undefined)
                        /\ UNCHANGED completed
              /\ UNCHANGED calls
    /\ UNCHANGED <<batchSize, hasOnComplete, source, pushed, taken, eof, readable,
                   endReadable, batch, totalProcessed, handlers, unhandled>>
    /\ UNCHANGED <<fetched, notS3Vars>>

\* the promise of invocation i of config.onData resolves: its caller goes on
\* to its next await
SinkResolves(i) ==
    /\ i \in DOMAIN calls
    /\ calls[i].state = "pending"
    /\ totalProcessed' = totalProcessed + Len(batch)
    /\ IF calls[i].by = Main
         THEN /\ calls' = [calls EXCEPT ![i].state = "resolved"]
              /\ IF hasOnComplete
                   THEN /\ completed' = completed + 1
                        /\ spc' = "complete"
                        /\ UNCHANGED s3outcome
                   ELSE /\ spc' = "resolved"
                        /\ s3outcome' = Resolved(Undefined)
                        /\ UNCHANGED completed
              /\ UNCHANGED batch
         ELSE /\ Len(calls) < MaxSinkCalls
              /\ batch' = WhileLoop(<<>>, calls[i].by)
              /\ calls' = Append([calls EXCEPT ![i].state = "resolved"],
                                 OnData(calls[i].by, batch'))
              /\ UNCHANGED <<spc, completed, s3outcome>>
    /\ UNCHANGED <<batchSize, hasOnComplete, source, pushed, taken, eof, readable,
                   endReadable, handlers, unhandled>>
    /\ UNCHANGED <<fetched, notS3Vars>>

\* the promise of invocation i of config.onData rejects: #processBatch throws;
\* in #processStreamingResults the catch rethrows, in a handler nothing does
SinkRejects(i, m) ==
    /\ i \in DOMAIN calls
    /\ calls[i].state = "pending"
    /\ calls' = [calls EXCEPT ![i].state = "rejected"]
    /\ IF calls[i].by = Main
         THEN /\ spc' = "rejected"
              /\ s3outcome' = Rejected(ProcessingError(ProcessBatchError(m)))
              /\ UNCHANGED <<handlers, unhandled>>
         ELSE /\ handlers' = [handlers EXCEPT ![calls[i].by] = "failed"]
              /\ unhandled' = unhandled + 1
              /\ UNCHANGED <<spc, s3outcome>>
    /\ UNCHANGED <<batchSize, hasOnComplete, source, pushed, taken, eof, readable,
                   endReadable, batch, totalProcessed, completed>>
    /\ UNCHANGED <<fetched, notS3Vars>>

\* the promise of config.onComplete resolves
OnCompleteResolves ==
    /\ spc = "complete"
    /\ spc' = "resolved"
    /\ s3outcome' = Resolved(Undefined)
    /\ UNCHANGED <<batchSize, hasOnComplete, source, pushed, taken, eof, readable,
                   endReadable, batch, totalProcessed, handlers, calls,
                   completed, unhandled>>
    /\ UNCHANGED <<fetched, notS3Vars>>

\* the promise of config.onComplete rejects
OnCompleteRejects(m) ==
    /\ spc = "complete"
    /\ spc' = "rejected"
    /\ s3outcome' = Rejected(ProcessingError(PlainError(<<m>>)))
    /\ UNCHANGED <<batchSize, hasOnComplete, source, pushed, taken, eof, readable,
                   endReadable, batch, totalProcessed, handlers, calls,
                   completed, unhandled>>
    /\ UNCHANGED <<fetched, notS3Vars>>

S3Next ==
    \/ ProcessResults
    \/ \E hasBody \in BOOLEAN : FetchResponds(hasBody)
    \/ \E m \in StorageMessages : FetchThrows(m)
    \/ ParserPush
    \/ ParserEof
    \/ \E m \in DecodeMessages : DecodeError(m)
    \/ Readable
    \/ Finished
    \/ \E i \in 1..MaxSinkCalls : SinkResolves(i)
    \/ \E i \in 1..MaxSinkCalls, m \in SinkMessages : SinkRejects(i, m)
    \/ OnCompleteResolves
    \/ \E m \in CompleteMessages : OnCompleteRejects(m)

S3SpecInit ==
    S3Init /\ QueryInit /\ CtorInit /\ MappedInit /\ MappedCtorInit /\ AppenderOff

S3Spec == S3SpecInit /\ [][S3Next]_vars

(***************************************************************************)
(* new S3QueryResultProcessor(config): the constructor and                 *)
(* #validateBatchSize. config.batchSize is a number or is omitted.         *)
(***************************************************************************)
\* how far below zero and above MAX_BATCH_SIZE the batch sizes tried reach
MaxUnder == 2
MaxOver == 2

BatchSizes ==
    {[given |-> FALSE, n |-> 0]}
        \cup {[given |-> TRUE, n |-> n] :
                n \in (0 - MaxUnder)..(MAX_BATCH_SIZE + MaxOver)}

\* the error #validateBatchSize throws
BatchSizeError ==
    PlainError(<<"Batch size cannot be greater than ", ToString(MAX_BATCH_SIZE)>>)

\* #validateBatchSize with >= in place of >
ValidateBatchSizeInclusive(arg) ==
    IF ~arg.given \/ arg.n = 0
      THEN Returned(MAX_BATCH_SIZE)
      ELSE IF arg.n >= MAX_BATCH_SIZE
             THEN Thrown(BatchSizeError)
             ELSE Returned(arg.n)

\* #validateBatchSize(batchSize): !batchSize holds for undefined and for 0
ValidateBatchSize(arg) ==
    IF ~arg.given \/ arg.n = 0
      THEN Returned(MAX_BATCH_SIZE)
      ELSE IF arg.n > MAX_BATCH_SIZE
             THEN Thrown(BatchSizeError)
             ELSE Returned(arg.n)

\* the constructor: the batch size is validated before the S3 client is made
Construct(arg) ==
    /\ cpc = "new"
    /\ cArg' = arg
    /\ LET validated == ValidateBatchSize(arg) IN
         IF validated.threw
           THEN /\ cpc' = "threw"
                /\ cError' = validated.error
                /\ UNCHANGED <<cBatchSize, cS3Client>>
           ELSE /\ cpc' = "constructed"
                /\ cBatchSize' = validated.value
                /\ cS3Client' = TRUE
                /\ UNCHANGED cError
    /\ UNCHANGED notCtorVars

CtorNext == \E arg \in BatchSizes : Construct(arg)

CtorSpecInit ==
    CtorInit /\ QueryInit /\ S3Off /\ MappedInit /\ MappedCtorInit /\ AppenderOff

CtorSpec == CtorSpecInit /\ [][CtorNext]_vars

(***************************************************************************)
(* new MappedQueryResultProcessor(config): the constructor has an empty    *)
(* body. config.MaxResults is a number or is omitted.                      *)
(***************************************************************************)
\* the constructor: it keeps config and validates nothing
MappedConstruct(arg) ==
    /\ mcpc = "new"
    /\ mcpc' = "constructed"
    /\ mcArg' = arg
    /\ UNCHANGED mcError
    /\ UNCHANGED notMappedCtorVars

MappedCtorNext == \E arg \in BatchSizes : MappedConstruct(arg)

MappedCtorSpecInit ==
    MappedCtorInit /\ QueryInit /\ S3Off /\ CtorInit /\ MappedInit /\ AppenderOff

MappedCtorSpec == MappedCtorSpecInit /\ [][MappedCtorNext]_vars

(***************************************************************************)
(* MappedQueryResultProcessor.processResults. A cell is its VarCharValue,  *)
(* Undefined when the cell has none; a row is its Data, which may be       *)
(* absent; a mapped row is a function from column names to values.         *)
(***************************************************************************)
\* the widest row and the most data rows of the responses tried
MaxCols == 2
MaxDataRows == 2

HeaderValues == {Undefined, "id", "name"}
DataValues == {Undefined, "1"}

SeqsUpTo(S, n) == UNION {[1..k -> S] : k \in 0..n}
RowsOver(S) ==
    {[hasData |-> FALSE, Data |-> <<>>]}
        \cup {[hasData |-> TRUE, Data |-> d] : d \in SeqsUpTo(S, MaxCols)}

\* ResultSet.Rows: a header row followed by data rows, or no row at all
RowSeqs ==
    {<<>>} \cup {<<h>> \o d : h \in RowsOver(HeaderValues),
                             d \in SeqsUpTo(RowsOver(DataValues), MaxDataRows)}

\* the continuation token of a page: none, or one
NextTokens == {Undefined, "next-token"}

ResultSets ==
    {[hasRows |-> FALSE, Rows |-> <<>>]}
        \cup {[hasRows |-> TRUE, Rows |-> rows] : rows \in RowSeqs}

\* the GetQueryResults responses
Responses ==
    {[hasResultSet |-> FALSE, ResultSet |-> NoResultSet.ResultSet,
      NextToken |-> token] : token \in NextTokens}
        \cup {[hasResultSet |-> TRUE, ResultSet |-> resultSet,
               NextToken |-> token] :
                 resultSet \in ResultSets, token \in NextTokens}

\* value || ''
OrEmpty(v) == IF Falsy(v) THEN "" ELSE v

NoResultSetError == PlainError(<<"Query results are empty or undefined">>)
NoHeadersError == PlainError(<<"No headers found in the result set">>)

\* the catch of processResults without the 'Error processing results: ' prefix
MappedProcessingErrorBare(error) == error

\* the catch of processResults
MappedProcessingError(error) ==
    PlainError(<<"Error processing results: ">> \o error.message)

\* #fetchQueryResults without the check of response.ResultSet
FetchQueryResultsUnchecked(response) == Returned(response.ResultSet)

\* #fetchQueryResults once athenaClient.send has answered
FetchQueryResults(response) ==
    IF ~response.hasResultSet
      THEN Thrown(NoResultSetError)
      ELSE Returned(response.ResultSet)

\* #extractHeaders(rows): rows[0]?.Data?.map(column => column.VarCharValue || '')
ExtractHeaders(rows) ==
    IF rows = <<>> \/ ~rows[1].hasData \/ Len(rows[1].Data) = 0
      THEN Thrown(NoHeadersError)
      ELSE Returned([i \in DOMAIN rows[1].Data |-> OrEmpty(rows[1].Data[i])])

\* #mapRowToObject without its check of the header: a column whose header
\* is the empty string is kept under that name
MapRowToObjectKeepsEmpty(row, headers) ==
    LET Data == IF row.hasData THEN row.Data ELSE <<>>
        assigned == {i \in DOMAIN Data : i \in DOMAIN headers}
        last(name) == CHOOSE i \in assigned :
                          /\ headers[i] = name
                          /\ \A j \in assigned : headers[j] = name => j <= i
    IN  [name \in {headers[i] : i \in assigned} |-> OrEmpty(Data[last(name)])]

\* #mapRowToObject(row, headers): forEach assigns in index order, so of two
\* positions with one header the later one stays; a falsy header is skipped
MapRowToObject(row, headers) ==
    LET Data == IF row.hasData THEN row.Data ELSE <<>>
        assigned == {i \in DOMAIN Data :
                        i \in DOMAIN headers /\ ~Falsy(headers[i])}
        last(name) == CHOOSE i \in assigned :
                          /\ headers[i] = name
                          /\ \A j \in assigned : headers[j] = name => j <= i
    IN  [name \in {headers[i] : i \in assigned} |-> OrEmpty(Data[last(name)])]

\* #extractRows mapping Rows instead of Rows.slice(1)
ExtractRowsKeepsHeader(resultSet) ==
    LET Rows == resultSet.Rows IN
    IF ~resultSet.hasRows \/ Len(Rows) = 0
      THEN Returned(<<>>)
      ELSE LET headers == ExtractHeaders(Rows) IN
           IF headers.threw
             THEN headers
             ELSE Returned([i \in 1..Len(Rows) |->
                              MapRowToObject(Rows[i], headers.value)])

\* #extractRows without its return for a result set that has no rows
ExtractRowsHeaderFirst(resultSet) ==
    LET Rows == resultSet.Rows
        headers == ExtractHeaders(Rows) IN
    IF headers.threw
      THEN headers
      ELSE Returned([i \in 1..(Len(Rows) - 1) |->
                       MapRowToObject(Rows[i + 1], headers.value)])

\* #extractRows mapping the data rows whether or not headers were found
ExtractRowsUncheckedHeaders(resultSet) ==
    LET Rows == resultSet.Rows IN
    IF ~resultSet.hasRows \/ Len(Rows) = 0
      THEN Returned(<<>>)
      ELSE LET headers == ExtractHeaders(Rows)
               names == IF headers.threw THEN <<>> ELSE headers.value
           IN  Returned([i \in 1..(Len(Rows) - 1) |->
                           MapRowToObject(Rows[i + 1], names)])

\* #extractRows(resultSet)
ExtractRows(resultSet) ==
    LET Rows == resultSet.Rows IN
    IF ~resultSet.hasRows \/ Len(Rows) = 0
      THEN Returned(<<>>)
      ELSE LET headers == ExtractHeaders(Rows) IN
           IF headers.threw
             THEN headers
             ELSE IF Len(headers.value) = 0
                    THEN Thrown(NoHeadersError)
                    ELSE Returned([i \in 1..(Len(Rows) - 1) |->
                                     MapRowToObject(Rows[i + 1], headers.value)])

\* processResults(queryExecutionId) up to the await of athenaClient.send
MappedProcessResults ==
    /\ mpc = "idle"
    /\ mpc' = "fetch"
    /\ mSends' = mSends + 1
    /\ UNCHANGED <<mResponse, mReceived, mOutcome>>
    /\ UNCHANGED notMapperVars

\* athenaClient.send answers with one of the responses: the rest of
\* processResults runs without await
GetQueryResultsResponds ==
    /\ mpc = "fetch"
    /\ \E response \in Responses :
         /\ mResponse' = response
         /\ LET resultSet == FetchQueryResults(response) IN
              IF resultSet.threw
                THEN mOutcome' =
                       MappedRejected(MappedProcessingError(resultSet.error))
                ELSE LET rows == ExtractRows(resultSet.value) IN
                     IF rows.threw
                       THEN mOutcome' =
                              MappedRejected(MappedProcessingError(rows.error))
                       ELSE mOutcome' = MappedResolved(rows.value)
    /\ mpc' = "settled"
    /\ mReceived' = "response"
    /\ UNCHANGED mSends
    /\ UNCHANGED notMapperVars

\* athenaClient.send throws
GetQueryResultsThrows(m) ==
    /\ mpc = "fetch"
    /\ mpc' = "settled"
    /\ mReceived' = "error"
    /\ mOutcome' = MappedRejected(MappedProcessingError(PlainError(<<m>>)))
    /\ UNCHANGED <<mResponse, mSends>>
    /\ UNCHANGED notMapperVars

MappedNext ==
    \/ MappedProcessResults
    \/ GetQueryResultsResponds
    \/ \E m \in TransportMessages : GetQueryResultsThrows(m)

MappedSpecInit ==
    MappedInit /\ QueryInit /\ S3Off /\ CtorInit /\ MappedCtorInit /\ AppenderOff

MappedSpec == MappedSpecInit /\ [][MappedNext]_vars

(***************************************************************************)
(* JsonFileAppender: flush, #ensureDirectoryExists, #initializeFile and    *)
(* closeFileWithBracket, called one after another by one caller. The file  *)
(* is the sequence of the chunks written to it. A write stream writes      *)
(* after the call that created it has returned: nothing waits for it.      *)
(***************************************************************************)
\* how many flush calls and how many close calls the caller makes
MaxFlushes == 2
MaxCloses == 1

\* the chunks the appender writes
OpenBracket == "[\n"
Separator == ",\n"
CloseBracket == "\n]"

\* the items of a batch, and JSON.stringify(item, null) of each
Items == {"a1", "b2"}
Stringify(item) == IF item = "a1" THEN "{\"a\":1}" ELSE "{\"b\":2}"

\* the batches handed to flush
Batches == {<<>>, <<"a1">>, <<"b2">>, <<"a1", "b2">>}

\* the members an instance has, and the members only the class has
InstanceMembers == {"flush"}
StaticMembers == {"closeFileWithBracket"}

AppenderInit ==
    /\ apc = "idle"
    /\ currentBatch = <<>>
    /\ isFirstWrite = TRUE
    /\ initially \in {"nodir", "absent", "empty"}
    /\ dirExists = (initially # "nodir")
    /\ fileExists = (initially = "empty")
    /\ file = <<>>
    /\ mkdirs = 0
    /\ streams = <<>>
    /\ closeCalls = <<>>

\* createWriteStream(filePath, { flags: "a" }) with what is written to it
WriteStream(by, items, chunks) ==
    [by |-> by, batch |-> items, chunks |-> chunks, state |-> "pending"]

NumStreams(by) == Cardinality({i \in DOMAIN streams : streams[i].by = by})

\* the write loop of flush: what it hands to writeStream.write, in order
RECURSIVE WriteLoop(_, _)
WriteLoop(first, items) ==
    IF items = <<>>
      THEN <<>>
      ELSE (IF first THEN <<>> ELSE <<Separator>>)
             \o <<Stringify(Head(items))>> \o WriteLoop(FALSE, Tail(items))

\* flush(currentBatch) up to the await of access(directory)
Flush(items) ==
    /\ apc = "idle"
    /\ NumStreams("flush") < MaxFlushes
    /\ apc' = "ensure"
    /\ currentBatch' = items
    /\ UNCHANGED <<isFirstWrite, dirExists, fileExists, file, initially, mkdirs,
                   streams, closeCalls>>
    /\ UNCHANGED notAppenderVars

\* #ensureDirectoryExists calling mkdir whether or not access succeeded
EnsureDirectoryAlwaysCreates ==
    /\ apc = "ensure"
    /\ dirExists' = TRUE
    /\ mkdirs' = mkdirs + 1
    /\ apc' = "access"
    /\ UNCHANGED <<currentBatch, isFirstWrite, fileExists, file, initially,
                   streams, closeCalls>>
    /\ UNCHANGED notAppenderVars

\* #ensureDirectoryExists: access(directory), and mkdir when it throws
EnsureDirectoryExists ==
    /\ apc = "ensure"
    /\ IF dirExists
         THEN UNCHANGED <<dirExists, mkdirs>>
         ELSE dirExists' = TRUE /\ mkdirs' = mkdirs + 1
    /\ apc' = "access"
    /\ UNCHANGED <<currentBatch, isFirstWrite, fileExists, file, initially,
                   streams, closeCalls>>
    /\ UNCHANGED notAppenderVars

\* #initializeFile: access(filePath) resolves or throws
AccessFile ==
    /\ apc = "access"
    /\ apc' = (IF fileExists THEN "stat" ELSE "writeFile")
    /\ UNCHANGED <<currentBatch, isFirstWrite, dirExists, fileExists, file,
                   initially, mkdirs, streams, closeCalls>>
    /\ UNCHANGED notAppenderVars

\* StatFile keeping a first-write flag that an earlier flush has set to
\* false: the size of the file counts only while the flag is still true
StatFileKeepsFlag ==
    /\ apc = "stat"
    /\ streams' = Append(streams,
                    WriteStream("flush", currentBatch,
                                WriteLoop(isFirstWrite /\ Len(file) = 0,
                                          currentBatch)))
    /\ isFirstWrite' = FALSE
    /\ apc' = "idle"
    /\ currentBatch' = <<>>
    /\ UNCHANGED <<dirExists, fileExists, file, initially, mkdirs, closeCalls>>
    /\ UNCHANGED notAppenderVars

\* #initializeFile: stat(filePath) resolves; flush then runs to its end
StatFile ==
    /\ apc = "stat"
    /\ streams' = Append(streams,
                    WriteStream("flush", currentBatch,
                                WriteLoop(Len(file) = 0, currentBatch)))
    /\ isFirstWrite' = FALSE
    /\ apc' = "idle"
    /\ currentBatch' = <<>>
    /\ UNCHANGED <<dirExists, fileExists, file, initially, mkdirs, closeCalls>>
    /\ UNCHANGED notAppenderVars

\* #initializeFile: writeFile(filePath, "[\n") resolves; flush then runs to
\* its end
WriteFile ==
    /\ apc = "writeFile"
    /\ fileExists' = TRUE
    /\ file' = <<OpenBracket>>
    /\ streams' = Append(streams,
                    WriteStream("flush", currentBatch,
                                WriteLoop(TRUE, currentBatch)))
    /\ isFirstWrite' = FALSE
    /\ apc' = "idle"
    /\ currentBatch' = <<>>
    /\ UNCHANGED <<dirExists, initially, mkdirs, closeCalls>>
    /\ UNCHANGED notAppenderVars

\* a write stream opens the file for appending and writes its chunks; in a
\* directory that does not exist the open fails
StreamWrites(i) ==
    /\ i \in DOMAIN streams
    /\ streams[i].state = "pending"
    /\ IF dirExists
         THEN /\ fileExists' = TRUE
              /\ file' = file \o streams[i].chunks
              /\ streams' = [streams EXCEPT ![i].state = "written"]
         ELSE /\ streams' = [streams EXCEPT ![i].state = "failed"]
              /\ UNCHANGED <<fileExists, file>>
    /\ UNCHANGED <<apc, currentBatch, isFirstWrite, dirExists, initially, mkdirs,
                   closeCalls>>
    /\ UNCHANGED notAppenderVars

CloseCall(on, threw) == [on |-> on, threw |-> threw]

\* closeFileWithBracket writing the bracket only to a file that exists
CloseFileWithBracketIfInitialized ==
    /\ apc = "idle"
    /\ Len(closeCalls) < MaxCloses
    /\ closeCalls' = Append(closeCalls, CloseCall("class", FALSE))
    /\ IF fileExists
         THEN streams' = Append(streams,
                           WriteStream("close", <<>>, <<CloseBracket>>))
         ELSE UNCHANGED streams
    /\ UNCHANGED <<apc, currentBatch, isFirstWrite, dirExists, fileExists, file,
                   initially, mkdirs>>
    /\ UNCHANGED notAppenderVars

\* JsonFileAppender.closeFileWithBracket(fileName, directory) with the
\* fileName and directory of the appender's options
CloseFileWithBracket ==
    /\ apc = "idle"
    /\ Len(closeCalls) < MaxCloses
    /\ closeCalls' = Append(closeCalls, CloseCall("class", FALSE))
    /\ streams' = Append(streams, WriteStream("close", <<>>, <<CloseBracket>>))
    /\ UNCHANGED <<apc, currentBatch, isFirstWrite, dirExists, fileExists, file,
                   initially, mkdirs>>
    /\ UNCHANGED notAppenderVars

\* jsonFileAppender.closeFileWithBracket() on an instance: a static method is
\* no member of the instance, so the call throws a TypeError
InstanceCloseFileWithBracket ==
    /\ apc = "idle"
    /\ Len(closeCalls) < MaxCloses
    /\ IF "closeFileWithBracket" \in InstanceMembers
         THEN /\ closeCalls' = Append(closeCalls, CloseCall("instance", FALSE))
              /\ streams' = Append(streams,
                              WriteStream("close", <<>>, <<CloseBracket>>))
         ELSE /\ closeCalls' = Append(closeCalls, CloseCall("instance", TRUE))
              /\ UNCHANGED streams
    /\ UNCHANGED <<apc, currentBatch, isFirstWrite, dirExists, fileExists, file,
                   initially, mkdirs>>
    /\ UNCHANGED notAppenderVars

AppenderNext ==
    \/ \E items \in Batches : Flush(items)
    \/ EnsureDirectoryExists
    \/ AccessFile
    \/ StatFile
    \/ WriteFile
    \/ \E i \in 1..(MaxFlushes + MaxCloses) : StreamWrites(i)
    \/ CloseFileWithBracket
    \/ InstanceCloseFileWithBracket

AppenderSpecInit ==
    AppenderInit /\ QueryInit /\ S3Off /\ CtorInit /\ MappedInit /\ MappedCtorInit

AppenderSpec == AppenderSpecInit /\ [][AppenderNext]_vars

(***************************************************************************)
(* Properties of the execution poller.                                     *)
(***************************************************************************)
Count(seq, x) == Cardinality({i \in DOMAIN seq : seq[i] = x})
NumStarts == Count(sends, "StartQueryExecution")
NumGets == Count(sends, "GetQueryExecution")
AllNonTerminal(seq) == \A i \in DOMAIN seq : seq[i].State \in NonTerminalStates
LastResponse == responses[Len(responses)]
LastState == IF responses = <<>> THEN "none" ELSE LastResponse.State
\* the sends of a query whose n status calls were all issued: one submit, n checks
SendsOf(n) == [i \in 1..(n + 1) |->
                 IF i = 1 THEN "StartQueryExecution" ELSE "GetQueryExecution"]
\* query() has settled and the poller does nothing more
Quiescent == qpc = "settled" /\ ~ENABLED QueryNext

\* C1: whenever a run of QUEUED/RUNNING status responses ends with SUCCEEDED
\* (no call having thrown), query() has resolved with exactly the execution
\* identifier the submit call returned.
C1_ResolvesWithSubmittedId ==
    LastState = "SUCCEEDED" =>
        /\ AllNonTerminal(SubSeq(responses, 1, Len(responses) - 1))
        /\ ~transport
        /\ executionId \in ExecutionIds
        /\ outcome = Resolved(executionId)

C1_Witness ==
    /\ Len(responses) = 3
    /\ responses[1].State = "QUEUED"
    /\ responses[2].State = "RUNNING"
    /\ responses[3].State = "SUCCEEDED"
    /\ outcome = Resolved("test-query-id-123")

\* C2: when k QUEUED/RUNNING responses were followed by SUCCEEDED, the client
\* has sent exactly one submit and exactly k+1 status calls, k+2 sends in all,
\* one status call per response, and sends nothing after SUCCEEDED.
C2_ExactlyKPlusTwoSends ==
    LastState = "SUCCEEDED" =>
        /\ sends = SendsOf(Len(responses))
        /\ NumStarts = 1
        /\ NumGets = Len(responses)
        /\ timers = Len(responses) - 1
        /\ Quiescent

C2_Witness ==
    /\ Len(responses) = 4
    /\ responses[1].State = "QUEUED"
    /\ responses[2].State = "QUEUED"
    /\ responses[3].State = "RUNNING"
    /\ responses[4].State = "SUCCEEDED"
    /\ Len(sends) = 5
    /\ outcome.kind = "resolved"

\* C3: when a status call returns FAILED, query() has rejected and the message
\* of the failure carries the service's StateChangeReason, or "Unknown reason"
\* when the reason is absent or empty.
C3_FailedCarriesReason ==
    LastState = "FAILED" =>
        /\ outcome.kind = "rejected"
        /\ outcome.error.message =
             <<"Query execution failed: ", "Query failed: ",
               IF LastResponse.StateChangeReason \in {Undefined, ""}
                 THEN "Unknown reason"
                 ELSE LastResponse.StateChangeReason>>

C3_Witness ==
    /\ LastState = "FAILED"
    /\ LastResponse.StateChangeReason = ""
    /\ outcome.kind = "rejected"
    /\ outcome.error.message[3] = "Unknown reason"

\* C4: every rejection of query() caused by a terminal failure the service
\* reports (FAILED, CANCELLED, an unrecognized state) is an AthenaQueryError.
C4_TerminalFailureIsAthenaQueryError ==
    (LastState \in (StatusStates \ NonTerminalStates) \ {"SUCCEEDED"}) =>
        /\ outcome.kind = "rejected"
        /\ outcome.error.name = "AthenaQueryError"

\* C5: when a status call returns CANCELLED, query() has rejected with a
\* message saying the query was cancelled, and that status call is the last:
\* no wait is started and no further status call is sent.
C5_CancelledRejectsWithoutRepoll ==
    LastState = "CANCELLED" =>
        /\ outcome.kind = "rejected"
        /\ outcome.error.message =
             <<"Query execution failed: ", "Query was cancelled">>
        /\ sends = SendsOf(Len(responses))
        /\ timers = Len(responses) - 1
        /\ Quiescent

C5_Witness ==
    /\ Len(responses) = 1
    /\ LastState = "CANCELLED"
    /\ NumGets = 1
    /\ timers = 0
    /\ outcome.kind = "rejected"

\* C6: when a status call returns a state other than SUCCEEDED, FAILED,
\* CANCELLED, QUEUED and RUNNING (or no state), query() has rejected with a
\* message naming that value; the value is never taken as non-terminal: no wait
\* is started for it and no further status call is sent.
C6_UnknownStateRejects ==
    (responses # <<>> /\ LastState \notin KnownStates) =>
        /\ outcome.kind = "rejected"
        /\ outcome.error.message =
             <<"Query execution failed: ", "Unknown query state: ", LastState>>
        /\ sends = SendsOf(Len(responses))
        /\ timers = Len(responses) - 1
        /\ Quiescent

C6_Witness ==
    /\ Len(responses) = 2
    /\ responses[1].State = "RUNNING"
    /\ LastState = Undefined
    /\ outcome.kind = "rejected"
    /\ outcome.error.message[3] = "undefined"

\* C7: if the submit response carries no execution identifier, query() rejects
\* at once with an AthenaQueryError and sends no status call.
C7_MissingIdRejectsAsAthenaQueryError ==
    (qpc \notin {"idle", "submit"} /\ ~transport /\ executionId \in {Undefined, ""}) =>
        /\ outcome.kind = "rejected"
        /\ outcome.error.name = "AthenaQueryError"
        /\ NumGets = 0
        /\ responses = <<>>

\* C8: a transport error thrown by the submit call or by a status call makes
\* query() reject with a wrapping AthenaQueryError whose message carries the
\* message of the error thrown; the call that failed is not sent again.
C8_TransportErrorIsWrapped ==
    transport =>
        /\ outcome.kind = "rejected"
        /\ outcome.error.name = "AthenaQueryError"
        /\ Len(outcome.error.message) = 2
        /\ outcome.error.message[1] = "Query execution failed: "
        /\ outcome.error.message[2] \in TransportMessages
        /\ Quiescent

\* C9: there is no maximum attempt count: while every status response so far
\* was QUEUED or RUNNING and no call has thrown, query() is unsettled, one wait
\* was started per response, and the poller is either waiting with the next
\* status call due when the wait ends or has that status call in flight.
C9_PollsWithoutAttemptLimit ==
    (responses # <<>> /\ AllNonTerminal(responses) /\ ~transport) =>
        /\ outcome = Pending
        /\ timers = Len(responses)
        /\ \/ qpc = "wait" /\ ENABLED TimerFires /\ sends = SendsOf(Len(responses))
           \/ qpc = "poll" /\ sends = SendsOf(Len(responses) + 1)

C9_Witness ==
    /\ Len(responses) = MaxPolls - 1
    /\ AllNonTerminal(responses)
    /\ qpc = "poll"
    /\ NumGets = MaxPolls
    /\ outcome = Pending

(***************************************************************************)
(* Properties of the streaming batch processor.                            *)
(***************************************************************************)
Ceil(n, b) == (n + b - 1) \div b

RECURSIVE RecordsIn(_)
\* how many records the invocations of cs received in all
RecordsIn(cs) ==
    IF cs = <<>> THEN 0 ELSE Len(Head(cs).records) + RecordsIn(Tail(cs))

\* C10: for a decoded stream of N records and batch size b, processResults
\* invokes the sink exactly ceil(N/b) times: never more while it runs, and when
\* it has resolved exactly that often, every invocation but the last with b
\* records, the last with N mod b (b when b divides N), N records in all.
C10_SinkInvokedCeilTimes ==
    /\ Len(calls) <= Ceil(source, batchSize)
    /\ RecordsIn(calls) <= source
    /\ spc = "resolved" =>
         /\ Len(calls) = Ceil(source, batchSize)
         /\ RecordsIn(calls) = source
         /\ \A i \in 1..(Len(calls) - 1) : Len(calls[i].records) = batchSize
         /\ calls # <<>> =>
              Len(calls[Len(calls)].records) =
                IF source % batchSize = 0 THEN batchSize ELSE source % batchSize

(***************************************************************************)
(* Properties of the streaming of S3QueryResultProcessor.                  *)
(***************************************************************************)
\* the records of all sink invocations, in invocation order
RECURSIVE Concat(_)
Concat(cs) == IF cs = <<>> THEN <<>> ELSE Head(cs).records \o Concat(Tail(cs))
\* the records the decoder produces, in decode order
Decoded == [i \in 1..source |-> i]
IsPrefix(a, b) == Len(a) <= Len(b) /\ \A i \in DOMAIN a : a[i] = b[i]
\* the error processResults rejects with when the sink rejected with m
SinkFailure(m) == ProcessingError(ProcessBatchError(m))
\* the error processResults rejects with when onComplete rejected with m
CompleteFailure(m) == ProcessingError(PlainError(<<m>>))

\* C11: the batches delivered to the sink, concatenated in delivery order, are
\* at every moment a prefix of the decoded record sequence, and are the whole
\* sequence once processResults has resolved: every record once, in order.
C11_DeliveredIsDecoded ==
    /\ IsPrefix(Concat(calls), Decoded)
    /\ spc = "resolved" => Concat(calls) = Decoded

\* C12: in every reachable state the batch array holds at most batchSize
\* records, and every batch handed to the sink has at most batchSize records.
C12_BufferWithinBatchSize ==
    /\ Len(batch) <= batchSize
    /\ \A i \in DOMAIN calls : Len(calls[i].records) <= batchSize

\* C14: whenever an invocation of the sink has rejected, be it for a batch
\* delivered by a 'readable' handler or for the final batch, processResults
\* has rejected with the wrapped error carrying the sink's message, that
\* invocation is the last one, and onComplete was not called.
C14_SinkRejectionAborts ==
    \A i \in DOMAIN calls :
        calls[i].state = "rejected" =>
            /\ s3outcome.kind = "rejected"
            /\ \E m \in SinkMessages : s3outcome.error = SinkFailure(m)
            /\ i = Len(calls)
            /\ completed = 0

\* C15: onComplete is called at most once, exactly once when processResults
\* has resolved, only when no sink invocation is still pending, and not at
\* all when processResults rejected for another reason than onComplete itself.
C15_OnCompleteOnceAfterLastBatch ==
    /\ completed <= 1
    /\ (spc = "resolved" /\ hasOnComplete) => completed = 1
    /\ completed >= 1 => \A i \in DOMAIN calls : calls[i].state # "pending"
    /\ (/\ s3outcome.kind = "rejected"
        /\ \A m \in CompleteMessages : s3outcome.error # CompleteFailure(m))
         => completed = 0

\* C16: when the storage client throws or answers without Body, processResults
\* has rejected with that error at once: the sink was never invoked, the
\* decoder produced nothing, onComplete was not called, and nothing follows.
C16_FetchFailureRejectsAtOnce ==
    fetched \in {"nobody", "threw"} =>
        /\ s3outcome.kind = "rejected"
        /\ fetched = "nobody" => s3outcome.error = FetchFileError
        /\ fetched = "threw" =>
             \E m \in StorageMessages : s3outcome.error = PlainError(<<m>>)
        /\ calls = <<>>
        /\ pushed = 0 /\ taken = 0 /\ ~readable /\ ~eof
        /\ completed = 0
        /\ ~ENABLED S3Next

C16_Witness == fetched = "nobody" /\ s3outcome.kind = "rejected"

(***************************************************************************)
(* Properties of the construction of S3QueryResultProcessor.               *)
(***************************************************************************)
\* C13: the constructor succeeds, with its S3 client made, for every batch
\* size from 1 to 999 and for an omitted one; for every batch size above 999
\* it throws 'Batch size cannot be greater than 999' and no S3 client was made.
C13_BatchSizeLimit ==
    cpc # "new" =>
        /\ (~cArg.given \/ cArg.n \in 1..999) =>
             cpc = "constructed" /\ cS3Client
        /\ (cArg.given /\ cArg.n > 999) =>
             /\ cpc = "threw"
             /\ cError = PlainError(<<"Batch size cannot be greater than ", "999">>)
             /\ ~cS3Client

C13_Witness == cpc = "threw" /\ cArg.given /\ cArg.n = 1000

(***************************************************************************)
(* Properties of MappedQueryResultProcessor.processResults.                *)
(***************************************************************************)
\* processResults has settled after a response of the service
Answered == mpc = "settled" /\ mReceived = "response"
ResultRows == mResponse.ResultSet.Rows
\* the response carries a result set that has no rows
NoRows ==
    /\ mResponse.hasResultSet
    /\ ~mResponse.ResultSet.hasRows \/ ResultRows = <<>>
\* the response carries a result set whose first row has at least one cell
HasHeaderRow ==
    /\ mResponse.hasResultSet
    /\ mResponse.ResultSet.hasRows
    /\ ResultRows # <<>>
    /\ ResultRows[1].hasData
    /\ ResultRows[1].Data # <<>>

C18_EmptyCasesDistinct ==
    Answered =>
        /\ NoRows => mOutcome = MappedResolved(<<>>)
        /\ ~mResponse.hasResultSet => mOutcome.kind = "rejected"

C18_Witness ==
    /\ Answered
    /\ mResponse.hasResultSet
    /\ mResponse.ResultSet.hasRows
    /\ ResultRows = <<>>
    /\ mOutcome.kind = "resolved"

\* C19 as stated: whenever the first page of a result set has no rows,
\* processResults has rejected.
C19_EmptyFirstPageFails == (Answered /\ NoRows) => mOutcome.kind = "rejected"

\* C19 amended: with a result set in the response, processResults rejects
\* exactly when a first row exists and yields no header cell; a first page
\* without rows resolves with the empty sequence.
C19_FailsOnlyWithoutHeaderCells ==
    (Answered /\ mResponse.hasResultSet) =>
        /\ mOutcome.kind = "rejected" <=> (~NoRows /\ ~HasHeaderRow)
        /\ NoRows => mOutcome.kind = "resolved" /\ mOutcome.value = <<>>

C19_Witness ==
    /\ Answered
    /\ mResponse.hasResultSet
    /\ ~mResponse.ResultSet.hasRows
    /\ mOutcome.kind = "resolved"
    /\ mOutcome.value = <<>>

\* C20: when the response carries no result set, processResults has rejected
\* with 'Error processing results: Query results are empty or undefined',
\* exactly one command was sent, and nothing more is sent afterwards.
C20_NoResultSetRejectsAfterOneFetch ==
    (Answered /\ ~mResponse.hasResultSet) =>
        /\ mOutcome = MappedRejected(PlainError(
               <<"Error processing results: ",
                 "Query results are empty or undefined">>))
        /\ mSends = 1
        /\ ~ENABLED MappedNext

C20_Witness ==
    /\ Answered
    /\ ~mResponse.hasResultSet
    /\ mOutcome.kind = "rejected"
    /\ mSends = 1

\* C21: processResults resolves only after a page that carries no
\* continuation token: a page with a token is followed by the fetch of the
\* next page, so no call resolves with a token still outstanding.
C21_PaginatesUntilNoToken ==
    (Answered /\ mOutcome.kind = "resolved") => Falsy(mResponse.NextToken)

(***************************************************************************)
(* Properties of the construction of MappedQueryResultProcessor.           *)
(***************************************************************************)
\* C22: the constructor throws 'Batch size cannot be greater than 999' for
\* every MaxResults above 999, and accepts MaxResults up to 999 or omitted.
C22_MaxResultsLimit ==
    mcpc # "new" =>
        /\ (mcArg.given /\ mcArg.n > 999) =>
             /\ mcpc = "threw"
             /\ mcError = PlainError(<<"Batch size cannot be greater than ", "999">>)
        /\ (~mcArg.given \/ mcArg.n <= 999) => mcpc = "constructed"

(***************************************************************************)
(* Properties of JsonFileAppender.                                         *)
(***************************************************************************)
\* the text of an item, and the item a text stands for
IsItemText(text) == \E item \in Items : Stringify(item) = text
Unstringify(text) == CHOOSE item \in Items : Stringify(item) = text

\* JSON.parse of a file content as an array: '[', items separated by ',',
\* ']', with white space between them
JsonParse(content) ==
    LET n == Len(content)
        inner == SubSeq(content, 2, n - 1)
    IN  [ok |-> /\ n >= 2
                /\ content[1] = OpenBracket
                /\ content[n] = CloseBracket
                /\ inner # <<>> => Len(inner) % 2 = 1
                /\ \A k \in DOMAIN inner :
                     IF k % 2 = 1 THEN IsItemText(inner[k])
                                  ELSE inner[k] = Separator,
         items |-> [k \in 1..((Len(inner) + 1) \div 2) |->
                      IF IsItemText(inner[2 * k - 1])
                        THEN Unstringify(inner[2 * k - 1]) ELSE "?"]]

\* the batches flushed so far, concatenated in flush order
RECURSIVE FlushedItems(_)
FlushedItems(ss) ==
    IF ss = <<>> THEN <<>>
    ELSE (IF Head(ss).by = "flush" THEN Head(ss).batch ELSE <<>>)
           \o FlushedItems(Tail(ss))

\* no call is in progress and every stream has written what it was given
AllWritten ==
    /\ apc = "idle"
    /\ \A i \in DOMAIN streams : streams[i].state = "written"
\* at least one flush was made, and then closeFileWithBracket once
FlushedThenClosedOnce ==
    /\ NumStreams("flush") >= 1
    /\ NumStreams("close") = 1
    /\ Len(closeCalls) = 1
    /\ streams[Len(streams)].by = "close"

\* C23: on a target file that did not exist, after flushes of non-empty
\* batches, each awaited, and one close, the file parses as JSON to the
\* concatenation of the batches in flush order.
C23_RoundTrip ==
    (/\ initially \in {"nodir", "absent"}
     /\ FlushedThenClosedOnce
     /\ \A i \in DOMAIN streams :
          streams[i].by = "flush" => streams[i].batch # <<>>
     /\ AllWritten)
      => /\ JsonParse(file).ok
         /\ JsonParse(file).items = FlushedItems(streams)

\* C24: on a target file that was absent or empty, after N >= 1 awaited
\* flushes of batches of any length and one close, the file content is a
\* syntactically valid JSON array.
C24_ValidJsonArray ==
    (FlushedThenClosedOnce /\ AllWritten) => JsonParse(file).ok

\* C25: every call of closeFileWithBracket on the class creates a stream that
\* is given exactly "\n]", whether or not a flush was made and whether or not
\* the file exists; when no flush was ever made and the directory exists, a
\* file that was absent or empty holds only "\n]" for every close written.
C25_CloseAppendsBracketOnly ==
    /\ \A i \in DOMAIN streams :
         streams[i].by = "close" => streams[i].chunks = <<CloseBracket>>
    /\ NumStreams("close") =
         Cardinality({k \in DOMAIN closeCalls : closeCalls[k].on = "class"})
    /\ (NumStreams("flush") = 0 /\ AllWritten /\ initially # "nodir") =>
         /\ file = [k \in 1..NumStreams("close") |-> "\n]"]
         /\ NumStreams("close") >= 1 => fileExists

C25_Witness ==
    /\ initially = "absent"
    /\ NumStreams("flush") = 0
    /\ NumStreams("close") = 1
    /\ AllWritten
    /\ file = <<"\n]">>

\* C26: every call of closeFileWithBracket() on the instance returns without
\* throwing and has created a stream that appends the closing bracket to the
\* instance's target file.
C26_InstanceCloseWritesOwnFile ==
    /\ \A k \in DOMAIN closeCalls : ~closeCalls[k].threw
    /\ NumStreams("close") = Len(closeCalls)

\* C27: a step of #ensureDirectoryExists on a directory that exists calls no
\* mkdir and leaves the directory and the file in it as they are; on a
\* directory that does not exist it calls mkdir once and the directory then
\* exists; either way flush goes on to #initializeFile.
C27_EnsureDirectoryIdempotent ==
    [][(apc = "ensure" /\ apc' # "ensure") =>
          /\ apc' = "access"
          /\ dirExists'
          /\ IF dirExists
               THEN /\ mkdirs' = mkdirs
                    /\ fileExists' = fileExists
                    /\ file' = file
               ELSE mkdirs' = mkdirs + 1]_vars

C27_Witness ==
    /\ NumStreams("flush") >= 1
    /\ apc = "access"
    /\ mkdirs = 0

(***************************************************************************)
(* Timing of the status calls of the execution poller.                     *)
(***************************************************************************)
\* the status responses classified as QUEUED or RUNNING
NonTerminalResponses ==
    {i \in DOMAIN responses : responses[i].State \in NonTerminalStates}

\* C28: once the submit response carries an identifier the first status call
\* is sent with no timer started; exactly one timer of 1000 ms is started per
\* status response classified QUEUED or RUNNING, and only then; every status
\* call after the first uses up one such timer; at most one status call is
\* awaiting its response.
C28_PollTiming ==
    /\ Len(waits) = timers
    /\ \A i \in DOMAIN waits : waits[i] = 1000
    /\ timers = Cardinality(NonTerminalResponses)
    /\ NumGets <= timers + 1
    /\ NumGets - Len(responses) \in {0, 1}
    /\ (qpc \in {"poll", "wait"} \/ responses # <<>>) => NumGets >= 1
    /\ qpc = "poll" => NumGets = timers + 1 /\ NumGets = Len(responses) + 1
    /\ qpc = "wait" => NumGets = timers /\ NumGets = Len(responses)

C28_Witness == qpc = "poll" /\ timers = 2 /\ NumGets = 3 /\ Len(responses) = 2

(***************************************************************************)
(* Backpressure and the final batch of S3QueryResultProcessor.             *)
(***************************************************************************)
\* invocation i of the sink was made by a 'readable' handler and is pending
InFlight(i) == calls[i].by # Main /\ calls[i].state = "pending"

\* C29: across every step during which a sink invocation made by a
\* 'readable' handler stays pending, no record is read from the decoder and
\* the batch array is left as it is.
C29_Backpressure ==
    [][(\E i \in DOMAIN calls : InFlight(i) /\ calls'[i].state = "pending")
          => (taken' = taken /\ batch' = batch)]_vars

\* C30: the sink is never invoked with an empty batch; the final batch is
\* delivered at most once and only after the stream has ended; for a stream
\* of no records the sink is never invoked, and processResults then fails
\* only when the fetch, the decoder or onComplete failed.
C30_FinalBatchOnlyIfNonEmpty ==
    /\ \A i \in DOMAIN calls : calls[i].records # <<>>
    /\ \A i \in DOMAIN calls : calls[i].by = Main => (eof /\ endReadable)
    /\ Cardinality({i \in DOMAIN calls : calls[i].by = Main}) <= 1
    /\ source = 0 => calls = <<>>
    /\ (source = 0 /\ s3outcome.kind = "rejected") =>
         \/ fetched \in {"nobody", "threw"}
         \/ \E m \in DecodeMessages :
              s3outcome.error = ProcessingError(PlainError(<<m>>))
         \/ \E m \in CompleteMessages : s3outcome.error = CompleteFailure(m)

C30_Witness ==
    /\ source = 0
    /\ eof
    /\ spc = "resolved"
    /\ s3outcome.kind = "resolved"
    /\ calls = <<>>

(***************************************************************************)
(* Header cells and the cell-level mapping of MappedQueryResultProcessor.  *)
(***************************************************************************)
\* the response carries a result set whose first row has no cell
NoHeaderCells ==
    /\ mResponse.hasResultSet
    /\ mResponse.ResultSet.hasRows
    /\ ResultRows # <<>>
    /\ ~ResultRows[1].hasData \/ ResultRows[1].Data = <<>>

\* the cells of row i of the response, none when the row has no Data
CellsOf(i) == IF ResultRows[i].hasData THEN ResultRows[i].Data ELSE <<>>

\* C31: when the first row of the response yields no header cell,
\* processResults has rejected with 'Error processing results: No headers
\* found in the result set' and has returned no record.
C31_NoHeaderCellsRejects ==
    (Answered /\ NoHeaderCells) =>
        mOutcome = MappedRejected(PlainError(
                       <<"Error processing results: ",
                         "No headers found in the result set">>))

C31_Witness ==
    /\ Answered
    /\ NoHeaderCells
    /\ ResultRows[1].hasData
    /\ Len(ResultRows) = 2
    /\ mOutcome.kind = "rejected"
    /\ mOutcome.value = <<>>

\* C32 as stated: every header position that exists in a data row gives one
\* entry of the record: the cell is mapped under the header's name, '' for a
\* header cell without value, and the record has as many entries as the row
\* has header positions.
C32_EveryHeaderPositionMapped ==
    (Answered /\ HasHeaderRow) =>
        LET header == ResultRows[1].Data
            out == mOutcome.value
        IN  /\ mOutcome.kind = "resolved"
            /\ \A i \in DOMAIN out :
                 LET positions == DOMAIN CellsOf(i + 1) \cap DOMAIN header IN
                 /\ \A p \in positions :
                      /\ OrEmpty(header[p]) \in DOMAIN out[i]
                      /\ out[i][OrEmpty(header[p])] = OrEmpty(CellsOf(i + 1)[p])
                 /\ Cardinality(DOMAIN out[i]) = Cardinality(positions)

\* C32 amended: the keys of a record are exactly the non-empty header names
\* at the positions its row has: a cell under a header cell without value is
\* dropped, as is a cell without header cell; each key maps to the value of
\* the last position bearing that name, '' for a cell without value.
C32_MapsNamedPositions ==
    (Answered /\ HasHeaderRow) =>
        LET header == ResultRows[1].Data
            out == mOutcome.value
        IN  /\ mOutcome.kind = "resolved"
            /\ \A i \in DOMAIN out :
                 LET named == {p \in DOMAIN CellsOf(i + 1) \cap DOMAIN header :
                                 ~Falsy(header[p])}
                 IN  /\ DOMAIN out[i] = {header[p] : p \in named}
                     /\ \A p \in named :
                          (\A q \in named : q > p => header[q] # header[p])
                            => out[i][header[p]] = OrEmpty(CellsOf(i + 1)[p])

C32_Witness ==
    /\ Answered
    /\ ResultRows = <<[hasData |-> TRUE, Data |-> <<Undefined, "id">>],
                      [hasData |-> TRUE, Data |-> <<"1", Undefined>>]>>
    /\ mOutcome.kind = "resolved"
    /\ mOutcome.value = <<[id |-> ""]>>

(***************************************************************************)
(* The separators and the first-write flag of JsonFileAppender.            *)
(***************************************************************************)
\* stream i was created by a flush
IsFlush(i) == streams[i].by = "flush"
\* a flush before the one of stream i was handed at least one item
ItemBefore(i) ==
    \E j \in 1..(i - 1) : IsFlush(j) /\ streams[j].batch # <<>>
\* the stream a step has just created
NewStream == streams'[Len(streams')]

\* C33: in every flush of a sequence of flushes to a target that held no
\* item at the start, the first item of the batch is preceded by a separator
\* exactly when an earlier flush was handed an item, and every other item of
\* the batch by one: the first item ever written has no separator before it.
C33_SeparatorRule ==
    \A i \in DOMAIN streams :
        (\A j \in 1..i : IsFlush(j)) =>
            streams[i].chunks = WriteLoop(~ItemBefore(i), streams[i].batch)

\* C34 as stated: in every flush after the first, each item written,
\* the first of the batch included, is preceded by a separator.
C34_LaterFlushesSeparate ==
    \A i, j \in DOMAIN streams :
        (i < j /\ IsFlush(i) /\ IsFlush(j)) =>
            streams[j].chunks = WriteLoop(FALSE, streams[j].batch)

\* C34 amended: every flush derives the first-write flag anew before its
\* write loop: the first item of the batch goes without separator exactly
\* when this flush found no file and created it, or found one of zero size,
\* whatever an earlier flush left in the flag; the flag is false after the
\* loop. On a target that was absent every flush after the first separates
\* each item.
C34_FlagDerivedPerFlush ==
    /\ [][(Len(streams') = Len(streams) + 1 /\ NewStream.by = "flush") =>
             /\ NewStream.chunks =
                  WriteLoop(apc = "writeFile" \/ Len(file) = 0, NewStream.batch)
             /\ ~isFirstWrite']_vars
    /\ [](initially \in {"nodir", "absent"} => C34_LaterFlushesSeparate)

C34_Witness ==
    /\ initially = "empty"
    /\ Len(streams) = 2
    /\ IsFlush(1) /\ streams[1].batch = <<>> /\ streams[1].state = "written"
    /\ IsFlush(2) /\ streams[2].chunks = <<Stringify("a1")>>
    /\ ~isFirstWrite

\* C39: whenever no flush is in progress, every item handed to a flush that
\* has returned is in the file, and the streams have written in the order
\* of their calls, so that the bracket of a close lies after the items of
\* the flushes before it.
C39_FlushResolvesAfterWrite ==
    /\ apc = "idle" =>
         \A i \in DOMAIN streams :
             (IsFlush(i) /\ streams[i].batch # <<>>) =>
                 streams[i].state = "written"
    /\ \A i, j \in DOMAIN streams :
         (i < j /\ streams[j].state = "written") => streams[i].state = "written"

(***************************************************************************)
(* The end of polling of the execution poller.                             *)
(***************************************************************************)
\* a status response was classified terminal, or a call has thrown
TerminalSeen ==
    \/ transport
    \/ responses # <<>> /\ LastState \notin NonTerminalStates

\* C35: once a status response was classified terminal (SUCCEEDED, FAILED,
\* CANCELLED, an unrecognized state) or a call has thrown, query() has
\* settled, every status call sent is the one answered or the one that
\* threw, no wait was started but for the QUEUED/RUNNING responses, and no
\* step of the poller is possible any more, so the result stays as it is.
C35_NothingAfterTerminal ==
    TerminalSeen =>
        /\ qpc = "settled"
        /\ outcome.kind \in {"resolved", "rejected"}
        /\ outcome.kind = "resolved" <=> (~transport /\ LastState = "SUCCEEDED")
        /\ NumGets \in {Len(responses), Len(responses) + 1}
        /\ NumGets = Len(responses) + 1 => transport
        /\ timers = Cardinality(NonTerminalResponses)
        /\ Len(waits) = timers
        /\ ~ENABLED QueryNext

C35_Witness ==
    /\ transport
    /\ Len(responses) = 2
    /\ AllNonTerminal(responses)
    /\ NumGets = 3
    /\ timers = 2
    /\ outcome.kind = "rejected"

(***************************************************************************)
(* The read loop and the sink invocations of S3QueryResultProcessor.       *)
(***************************************************************************)
\* the sink invocations that have not settled
PendingCalls == {i \in DOMAIN calls : calls[i].state = "pending"}

\* C36: the read loop of a 'readable' handler ends once the record it read
\* is consumed: a handler that read one record hands it to the sink in at
\* most one invocation and makes no invocation after that one.
C36_ReadLoopEnds ==
    \A i, j \in DOMAIN calls :
        (i < j /\ calls[i].by # Main) => calls[j].by # calls[i].by

\* C37: at most one invocation of the sink is pending at any time, the
\* invocation for the final batch included.
C37_OneSinkCallAtATime == Cardinality(PendingCalls) <= 1

\* C38: while an invocation of the sink is pending, the batch array holds
\* exactly the records it held when it was handed to that invocation.
C38_BatchStableDuringCall ==
    \A i \in PendingCalls : batch = calls[i].records

(***************************************************************************)
(* The effective batch size of S3QueryResultProcessor.                     *)
(***************************************************************************)
\* C40: after every construction that succeeds, for a batch size omitted,
\* zero, negative or positive, this.#batchSize lies between 1 and 999.
C40_EffectiveBatchSizeInRange ==
    cpc = "constructed" => cBatchSize \in 1..MAX_BATCH_SIZE

====
